---- MODULE Spec2Model ----
(***************************************************************************)
(* Model of the AI colour suggester service: the palette organizer and the *)
(* two provider adapters of src/test.py, and the POST /api/suggest-colors  *)
(* request handler of src/main.py.                                         *)
(*                                                                         *)
(* A Python string is a sequence of one-character strings, so that         *)
(* slicing, prefixing, regular-expression matching and hex decoding are    *)
(* computed on the characters as the code computes them.                   *)
(***************************************************************************)
EXTENDS Integers, Sequences, FiniteSets, TLC

VARIABLES
    pc,                 \* position of the running function
    reply,              \* what the provider answered to the adapter that ran last
    adapter,            \* "gemini" / "groq": the adapter that ran last ("none" before)
    focus,              \* the adapter whose replies are enumerated exhaustively
    image_colors,       \* test.py:502
    description_colors, \* test.py:506
    organized_palette,  \* test.py:510
    all_colors,         \* test.py:513
    gemini_api_key,     \* main.py:97  os.environ.get("GEMINI_API_KEY")
    groq_api_key,       \* main.py:98  os.environ.get("GROQ_API_KEY")
    content_type,       \* image.content_type of the upload
    temp_path_bound,    \* 'temp_path' in locals()
    temp_exists,        \* os.path.exists(temp_path)
    temp_created,       \* the handler has created a temporary file
    upload_read,        \* image.read() has been awaited
    extract_called,     \* extract_colors_with_gemini has been invoked
    suggest_called,     \* suggest_colors_with_chatgroq has been invoked
    pending,            \* the exception travelling to the except clauses
    color_analysis,     \* main.py:130
    response,           \* what the caller receives
    generate_preview,   \* test.py:485  parameter of ai_color_suggester
    template_type,      \* test.py:485  parameter of ai_color_suggester
    preview,            \* test.py:526  what generate_ui_preview returned
    result_keys,        \* test.py:516  the keys of the result dictionary
    ai_outcome,         \* what the AI-generated preview path met
    draw_outcome        \* what the local drawing path met

vars == <<pc, reply, adapter, focus, image_colors, description_colors,
          organized_palette, all_colors, gemini_api_key, groq_api_key,
          content_type, temp_path_bound, temp_exists, temp_created, upload_read,
          extract_called, suggest_called, pending, color_analysis, response,
          generate_preview, template_type, preview, result_keys, ai_outcome,
          draw_outcome>>

-----------------------------------------------------------------------------
(* Bounds of the model *)

MaxImg == 3
\* longest image_colors sequence fed to organize_palette
MaxDesc == 2
\* longest description_colors sequence fed to organize_palette
MaxText == 4

\* longest image_colors and description_colors when the colours are chosen
\* around the brightness thresholds
MaxEdge == 2
\* longest provider reply, in lexical items

-----------------------------------------------------------------------------
(* Strings, hex digits *)

None == <<>>
\* Python None / a value that is not there (also the empty string)

Range(s) == {s[i] : i \in 1..Len(s)}

HexLower == <<"0","1","2","3","4","5","6","7","8","9","a","b","c","d","e","f">>
HexUpper == <<"0","1","2","3","4","5","6","7","8","9","A","B","C","D","E","F">>

\* the value of each hex digit, either case
HexTable ==
    [ch \in Range(HexLower) \cup Range(HexUpper) |->
        (CHOOSE i \in 1..16 : HexLower[i] = ch \/ HexUpper[i] = ch) - 1]

IsHexDigit(ch) == ch \in DOMAIN HexTable

HexVal(ch) == HexTable[ch]

\* Python s[a:b]
Slice(s, a, b) == SubSeq(s, a + 1, IF b < Len(s) THEN b ELSE Len(s))

\* int(s, 16) of a two-character slice
int16(s) == HexVal(s[1]) * 16 + HexVal(s[2])

cWhite   == <<"#","f","f","f","f","f","f">>
cBlack   == <<"#","0","0","0","0","0","0">>
cNavy    == <<"#","1","1","2","2","3","3">>
cGrey    == <<"#","8","0","8","0","8","0">>
cBlue    == <<"#","3","4","9","8","d","b">>
cGreen   == <<"#","2","e","c","c","7","1">>
cRed     == <<"#","e","7","4","c","3","c">>
cCharcoal == <<"#","3","3","3","3","3","3">>
cCard    == <<"#","f","8","f","9","f","a">>
cBorder  == <<"#","e","0","e","0","e","0">>

SeqsUpTo(S, n) == UNION {[1..k -> S] : k \in 0..n}

-----------------------------------------------------------------------------
(* organize_palette, src/test.py:169-230 *)

DefaultPrimary == cBlue
DefaultSecondary == cGreen
DefaultAccent == cRed
DefaultBackground == cWhite
DefaultText == cCharcoal

LightThreshold == 200
DarkThreshold == 80

\* brightness * 1000: the code divides the weighted sum by 1000 and compares
\* with 200 and 80; the comparisons are made here on the undivided sum.
brightness1000(color) ==
    LET r == int16(Slice(color, 1, 3))
        g == int16(Slice(color, 3, 5))
        b == int16(Slice(color, 5, 7))
    IN  r * 299 + g * 587 + b * 114

\* mutant: brightness exactly at the threshold counts as light
is_light_inclusive(color) == brightness1000(color) >= LightThreshold * 1000

is_light(color) == brightness1000(color) > LightThreshold * 1000

\* mutant: brightness exactly at the threshold counts as dark
is_dark_inclusive(color) == brightness1000(color) <= DarkThreshold * 1000

is_dark(color) == brightness1000(color) < DarkThreshold * 1000

\* mutant: the description colour is preferred to the image colour
primary_of_description_first(ic, dc) ==
    IF Len(dc) > 0 THEN dc[1]
    ELSE IF Len(ic) > 0 THEN ic[1] ELSE DefaultPrimary

primary_of(ic, dc) ==
    IF Len(ic) > 0 THEN ic[1]
    ELSE IF Len(dc) > 0 THEN dc[1] ELSE DefaultPrimary

\* mutant: no default when neither sequence has a second colour
secondary_of_no_default(ic, dc) ==
    IF Len(ic) > 1 THEN ic[2]
    ELSE IF Len(dc) > 1 THEN dc[2] ELSE None

secondary_of(ic, dc) ==
    IF Len(ic) > 1 THEN ic[2]
    ELSE IF Len(dc) > 1 THEN dc[2] ELSE DefaultSecondary

\* mutant: the candidate is compared with primary only
accent_of_primary_only(ic, dc, primary, secondary) ==
    IF Len(dc) > 0 /\ dc[1] # primary
    THEN dc[1]
    ELSE IF Len(ic) > 2 THEN ic[3] ELSE DefaultAccent

\* mutant: the candidate is compared with secondary only
accent_of_secondary_only(ic, dc, primary, secondary) ==
    IF Len(dc) > 0 /\ dc[1] # secondary
    THEN dc[1]
    ELSE IF Len(ic) > 2 THEN ic[3] ELSE DefaultAccent

accent_of(ic, dc, primary, secondary) ==
    IF Len(dc) > 0 /\ dc[1] \notin {primary, secondary}
    THEN dc[1]
    ELSE IF Len(ic) > 2 THEN ic[3] ELSE DefaultAccent

light_colors(all) == SelectSeq(all, is_light)

dark_colors(all) == SelectSeq(all, is_dark)

\* mutant: the text default is the background default
text_of_wrong_default(all) ==
    LET dark == SelectSeq(all, is_dark)
    IN  IF Len(dark) > 0 THEN dark[1] ELSE DefaultBackground

\* mutant: the last dark colour, not the first
text_of_last_dark(all) ==
    LET dark == SelectSeq(all, is_dark)
    IN  IF Len(dark) > 0 THEN dark[Len(dark)] ELSE DefaultText

background_of(all) ==
    LET light == light_colors(all)
    IN  IF Len(light) > 0 THEN light[1] ELSE DefaultBackground

text_of(all) ==
    LET dark == dark_colors(all)
    IN  IF Len(dark) > 0 THEN dark[1] ELSE DefaultText

\* mutant: the used set is taken before text is assigned
used_colors_without_text(primary, secondary, accent, background, text) ==
    {primary, secondary, accent, background}

\* set(palette.values()) while the palette holds the five roles only
used_colors(primary, secondary, accent, background, text) ==
    {primary, secondary, accent, background, text}

\* mutant: a colour already taken as additional is not taken again
additional_of_dedup(all, used) ==
    LET unused(c) == c \notin used
        rest == SelectSeq(all, unused)
        first(k) == \A j \in 1..(k - 1) : rest[j] # rest[k]
        idx == {k \in 1..Len(rest) : first(k)}
        nth(n) == CHOOSE k \in idx : Cardinality({j \in idx : j < k}) = n - 1
        n == IF Cardinality(idx) < 3 THEN Cardinality(idx) ELSE 3
    IN  [i \in 1..n |-> rest[nth(i)]]

\* [c for c in all_colors if c not in used_colors][:3]
additional_of(all, used) ==
    LET unused(c) == c \notin used
        rest == SelectSeq(all, unused)
    IN  SubSeq(rest, 1, IF Len(rest) < 3 THEN Len(rest) ELSE 3)

\* mutant: the card background test is inverted
ui_components_of_inverted(primary, secondary, background) ==
    [button          |-> primary,
     button_hover    |-> secondary,
     header          |-> primary,
     card_background |-> IF background = cWhite THEN cWhite ELSE cCard,
     border          |-> cBorder]

ui_components_of(primary, secondary, background) ==
    [button          |-> primary,
     button_hover    |-> secondary,
     header          |-> primary,
     card_background |-> IF background # cWhite THEN cWhite ELSE cCard,
     border          |-> cBorder]

organize_palette(ic, dc) ==
    LET all == ic \o dc
        primary == primary_of(ic, dc)
        secondary == secondary_of(ic, dc)
        accent == accent_of(ic, dc, primary, secondary)
        background == background_of(all)
        text == text_of(all)
        used == used_colors(primary, secondary, accent, background, text)
    IN  [primary       |-> primary,
         secondary     |-> secondary,
         accent        |-> accent,
         background    |-> background,
         text          |-> text,
         additional    |-> additional_of(all, used),
         ui_components |-> ui_components_of(primary, secondary, background)]

NoPalette ==
    [primary |-> None, secondary |-> None, accent |-> None, background |-> None,
     text |-> None, additional |-> <<>>,
     ui_components |-> [button |-> None, button_hover |-> None, header |-> None,
                        card_background |-> None, border |-> None]]

-----------------------------------------------------------------------------
(* Provider replies.                                                       *)
(*                                                                         *)
(* A reply either fails (transport error, provider error, unreadable       *)
(* image: any Exception raised before the reply text is in hand) or is a   *)
(* text.  The text is a sequence of lexical items: an opening bracket, a   *)
(* closing bracket, a JSON string literal (its decoded characters), a JSON *)
(* number, or a stretch of prose (its characters).  Between two adjacent   *)
(* JSON values inside brackets the separating comma is understood.         *)

LB == [k |-> "lb", s |-> <<>>]
RB == [k |-> "rb", s |-> <<>>]
Num == [k |-> "num", s |-> <<>>]
Str(s) == [k |-> "str", s |-> s]
Raw(s) == [k |-> "raw", s |-> s]
Arr == [k |-> "arr", s |-> <<>>]
\* a decoded JSON value that is itself a list

tNoHash  == <<"0","0","0","0","0","0">>
tNewline == cNavy \o <<"\n">>
tNotHex  == <<"#","1","2","3","4","5","g">>
tLong    == <<"#","f","f","f","f","f","f","0">>

Lexemes == {LB, RB, Num, Str(cWhite), Str(tNoHash), Str(tNewline), Str(tNotHex),
            Str(tLong), Raw(cGrey)}

Text(t) == [raises |-> FALSE, text |-> t]
Failure == [raises |-> TRUE, text |-> <<>>]
NoReply == [raises |-> FALSE, text |-> <<>>]

Replies == {Failure} \cup {Text(t) : t \in SeqsUpTo(Lexemes, MaxText)}

\* re.search(r'\[.*\]', response_text, re.DOTALL): leftmost '[', then greedy
\* to the last ']'
re_search_array(text) ==
    LET lbs == {i \in 1..Len(text) : text[i].k = "lb"}
        rbs == {i \in 1..Len(text) : text[i].k = "rb"}
        first == CHOOSE i \in lbs : \A j \in lbs : i <= j
        last == CHOOSE i \in rbs : \A j \in rbs : j <= i
    IN  IF lbs # {} /\ rbs # {} /\ first < last
        THEN SubSeq(text, first, last)
        ELSE <<>>

RECURSIVE json_wellformed(_, _, _)
json_wellformed(items, i, depth) ==
    IF i > Len(items) THEN depth = 0
    ELSE CASE items[i].k = "lb" -> json_wellformed(items, i + 1, depth + 1)
           [] items[i].k = "rb" -> depth > 0 /\ json_wellformed(items, i + 1, depth - 1)
           [] items[i].k = "raw" -> FALSE
           [] OTHER -> json_wellformed(items, i + 1, depth)

RECURSIVE json_elements(_, _, _)
json_elements(items, i, depth) ==
    IF i > Len(items) THEN <<>>
    ELSE CASE items[i].k = "lb" ->
                (IF depth = 0 THEN <<Arr>> ELSE <<>>)
                    \o json_elements(items, i + 1, depth + 1)
           [] items[i].k = "rb" -> json_elements(items, i + 1, depth - 1)
           [] OTHER ->
                (IF depth = 0 THEN <<items[i]>> ELSE <<>>)
                    \o json_elements(items, i + 1, depth)

\* json.loads(json_match.group(0)) succeeds
json_decodable(match) == json_wellformed(SubSeq(match, 2, Len(match) - 1), 1, 0)

\* json.loads(json_match.group(0))
json_loads(match) == json_elements(SubSeq(match, 2, Len(match) - 1), 1, 0)

\* '#' followed by six hex digits starts at position i of s
hex_at(s, i) ==
    /\ i + 6 <= Len(s)
    /\ s[i] = "#"
    /\ \A j \in 1..6 : IsHexDigit(s[i + j])

\* re.findall(r'#[0-9A-Fa-f]{6}', s) on the characters of one item
RECURSIVE findall_chars(_, _)
findall_chars(s, i) ==
    IF i > Len(s) THEN <<>>
    ELSE IF hex_at(s, i)
         THEN <<Str(SubSeq(s, i, i + 6))>> \o findall_chars(s, i + 7)
         ELSE findall_chars(s, i + 1)

\* re.findall(r'#[0-9A-Fa-f]{6}', response_text)
RECURSIVE findall(_)
findall(text) ==
    IF text = <<>> THEN <<>>
    ELSE findall_chars(Head(text).s, 1) \o findall(Tail(text))

\* re.match(r'^#[0-9A-Fa-f]{6}$', c): '$' also matches before a final newline
re_match_hex(c) ==
    /\ hex_at(c, 1)
    /\ \/ Len(c) = 7
       \/ Len(c) = 8 /\ c[8] = "\n"

\* c if c.startswith('#') else f"#{c}"
ensure_hash(c) == IF Len(c) > 0 /\ c[1] = "#" THEN c ELSE <<"#">> \o c

\* the tokens extracted from the reply text: test.py:71-81 and 145-155
extract_tokens(text) ==
    LET json_match == re_search_array(text)
    IN  IF json_match # <<>> /\ json_decodable(json_match)
        THEN json_loads(json_match)
        ELSE findall(text)

\* test.py:84-89 and 158-163: the outcome of normalising and filtering, as
\* [exc, val]: exc is the exception raised ("none" if none), val the value
normalise_and_filter(colors) ==
    IF \E i \in 1..Len(colors) : colors[i].k # "str"
    THEN [exc |-> "AttributeError", val |-> <<>>]
    ELSE LET prefixed == [i \in 1..Len(colors) |-> ensure_hash(colors[i].s)]
         IN  [exc |-> "none", val |-> SelectSeq(prefixed, re_match_hex)]

\* the body of the outer try of an adapter
adapter_body(r) ==
    IF r.raises
    THEN [exc |-> "ProviderError", val |-> <<>>]
    ELSE normalise_and_filter(extract_tokens(r.text))

\* mutant: no outer except clause
catch_all_missing(outcome) == outcome

\* except Exception as e: ... return []
catch_all(outcome) ==
    IF outcome.exc # "none" THEN [exc |-> "none", val |-> <<>>] ELSE outcome

extract_colors_with_gemini(r) == catch_all(adapter_body(r))

suggest_colors_with_chatgroq(r) == catch_all(adapter_body(r))

-----------------------------------------------------------------------------
(* generate_ui_preview and generate_preview_with_gemini,                   *)
(* src/test.py:232-483                                                     *)

KeyUnset == "<unset>"
\* os.environ.get returns None

KeyValues == {KeyUnset, "", "key"}

\* Python truth value of an environment value
truthy(k) == k \notin {KeyUnset, ""}

cWhiteUpper == <<"#","F","F","F","F","F","F">>

Templates == {"website", "mobile", "dashboard", "tablet"}

\* A preview: where it came from, its mime type, and for the locally drawn
\* one the canvas size, the colour the canvas starts with and the primitives
\* drawn on it, in drawing order (the PNG bytes are determined by them).
NoPreview ==
    [source |-> "none", mime_type |-> "", size |-> <<0, 0>>, background |-> None,
     prims |-> <<>>]

Rect(x0, y0, x1, y1, fill, outline) ==
    [shape |-> "rectangle", box |-> <<x0, y0, x1, y1>>, fill |-> fill,
     outline |-> outline]

Ellipse(x0, y0, x1, y1, fill, outline) ==
    [shape |-> "ellipse", box |-> <<x0, y0, x1, y1>>, fill |-> fill,
     outline |-> outline]

\* test.py:263-268
canvas_size(t) ==
    IF t = "mobile" THEN <<360, 640>>
    ELSE IF t = "dashboard" THEN <<1200, 800>>
    ELSE <<1200, 800>>

\* test.py:283-308
mobile_content(p, width, height) ==
    <<Rect(0, 0, width, 60, p.primary, None),
      Rect(20, 80, width - 20, 200, cWhiteUpper, p.secondary),
      Rect(20, 220, width - 20, 340, cWhiteUpper, p.secondary),
      Rect(20, 360, width - 20, 480, cWhiteUpper, p.secondary),
      Rect(0, height - 60, width, height, p.secondary, None),
      Ellipse(width - 80, height - 120, width - 20, height - 60, p.accent, None)>>
    \o [i \in 1..3 |-> Rect(40, 100 + (i - 1) * 20, width - 40,
                            100 + (i - 1) * 20 + 10, p.text, None)]
    \o [i \in 1..3 |-> Rect(40, 240 + (i - 1) * 20, width - 40,
                            240 + (i - 1) * 20 + 10, p.text, None)]
    \o [i \in 1..3 |-> Rect(40, 380 + (i - 1) * 20, width - 40,
                            380 + (i - 1) * 20 + 10, p.text, None)]

\* test.py:321-326: five menu items, each followed by its two text lines
sidebar_menu(p) ==
    [k \in 1..15 |->
        LET i == (k - 1) \div 3
            j == (k - 1) % 3
            y_pos == 120 + i * 60
        IN  IF j = 0
            THEN Rect(20, y_pos, 230, y_pos + 40, p.primary, None)
            ELSE Rect(40, y_pos + 10 + (j - 1) * 10, 200,
                      y_pos + 15 + (j - 1) * 10, p.text, None)]

\* test.py:312-352
website_content(p, width, height) ==
    <<Rect(20, 20, 200, 60, p.primary, None)>>
    \o [i \in 1..3 |-> Rect(250 + (i - 1) * 120, 30, 250 + (i - 1) * 120 + 80, 50,
                            p.primary, None)]
    \o sidebar_menu(p)
    \o <<Rect(270, 100, width - 20, 300, cWhiteUpper, p.secondary),
         Rect(290, 120, 500, 150, p.accent, None)>>
    \o [i \in 1..6 |-> Rect(290, 170 + (i - 1) * 20,
                            width - 310 - ((i - 1) % 3) * 50,
                            170 + (i - 1) * 20 + 10, p.text, None)]
    \o <<Rect(270, 320, width - 20, 520, cWhiteUpper, p.secondary),
         Rect(290, 340, 500, 370, p.accent, None)>>
    \o [i \in 1..6 |-> Rect(290, 390 + (i - 1) * 20,
                            width - 310 - (i % 3) * 50,
                            390 + (i - 1) * 20 + 10, p.text, None)]
    \o <<Rect(290, 540, 400, 580, p.primary, None),
         Rect(420, 540, 530, 580, p.secondary, None),
         Rect(550, 540, 660, 580, p.accent, None)>>

\* test.py:355-362
palette_legend(p, t, width, height) ==
    LET palette_width == 80
        palette_height == 40
        palette_y == IF t = "website" \/ t = "dashboard"
                     THEN height - 60 ELSE height - 120
        colors == <<p.primary, p.secondary, p.accent, p.background, p.text>>
    IN  [i \in 1..5 |->
            LET x_pos == width - (5 - (i - 1)) * palette_width - 20
            IN  Rect(x_pos, palette_y, x_pos + palette_width,
                     palette_y + palette_height, colors[i], cBlack)]

\* test.py:255-372: the locally drawn preview
draw_preview(p, t) ==
    LET width == canvas_size(t)[1]
        height == canvas_size(t)[2]
    IN  [source    |-> "local",
         mime_type |-> "image/png",
         size      |-> <<width, height>>,
         background |-> p.background,
         prims     |->
            <<Rect(0, 0, width, 80, p.primary, None)>>
            \o (IF t # "mobile"
                THEN <<Rect(0, 80, 250, height, p.secondary, None)>> ELSE <<>>)
            \o (IF t = "mobile"
                THEN mobile_content(p, width, height)
                ELSE website_content(p, width, height))
            \o palette_legend(p, t, width, height)]

\* what the AI-generated path can meet: the provider raises, the response
\* holds an image part, it holds neither an image nor an image URL, it holds
\* a URL whose download answers 200, answers another status, or raises
AIOutcomes == {"raises", "image_part", "no_image", "url_ok", "url_not_200",
               "url_raises"}

\* test.py:390-479, as [exc, val]
gemini_preview_body(o) ==
    CASE o = "raises" -> [exc |-> "ProviderError", val |-> NoPreview]
      [] o = "url_raises" -> [exc |-> "ConnectionError", val |-> NoPreview]
      [] o = "image_part" ->
            [exc |-> "none",
             val |-> [source |-> "gemini", mime_type |-> "image/png",
                      size |-> <<0, 0>>, background |-> None,
                      prims |-> <<>>]]
      [] o = "url_ok" ->
            [exc |-> "none",
             val |-> [source |-> "gemini", mime_type |-> "Content-Type",
                      size |-> <<0, 0>>, background |-> None,
                      prims |-> <<>>]]
      [] OTHER -> [exc |-> "none", val |-> NoPreview]

\* test.py:378-483: except Exception ... return None
generate_preview_with_gemini(o) ==
    IF gemini_preview_body(o).exc # "none"
    THEN [exc |-> "none", val |-> NoPreview]
    ELSE gemini_preview_body(o)

\* mutant: no local drawing once the AI-generated path was tried
generate_ui_preview_no_fallback(p, t, key, o, ok) ==
    IF truthy(key)
    THEN generate_preview_with_gemini(o).val
    ELSE IF ok THEN draw_preview(p, t) ELSE NoPreview

\* test.py:232-376: the AI-generated preview if a key is given and the path
\* yields one; otherwise the local drawing, or None when drawing raises (ok
\* is FALSE)
generate_ui_preview(p, t, key, o, ok) ==
    LET ai == IF truthy(key) THEN generate_preview_with_gemini(o)
              ELSE [exc |-> "none", val |-> NoPreview]
    IN  IF ai.exc = "none" /\ ai.val # NoPreview
        THEN ai.val
        ELSE IF ok THEN draw_preview(p, t) ELSE NoPreview

-----------------------------------------------------------------------------
(* ai_color_suggester, src/test.py:485-537                                 *)

\* An exception raised in the handler's try block: its type, for an
\* HTTPException its status and detail, and whether an except clause has
\* caught it without raising it again.
NoExc == [type |-> "none", status |-> 0, detail |-> "", caught |-> FALSE]
Exc(t) == [type |-> t, status |-> 0, detail |-> "", caught |-> FALSE]
HTTPException(code, msg) ==
    [type |-> "HTTPException", status |-> code, detail |-> msg, caught |-> FALSE]

\* replies given to the adapter that is not enumerated exhaustively
SampleReplies ==
    {Failure,
     Text(<<Num>>),
     Text(<<LB, Str(cWhite), Str(tNoHash), RB>>),
     Text(<<LB, Str(cNavy), Num, RB>>),
     Text(<<Raw(cGrey), Raw(cRed)>>),
     Text(<<LB, Str(cGrey), Str(cRed), Str(cBlue), Str(cWhite), Str(cBlack), RB>>)}

GeminiReplies == IF focus = "gemini" THEN Replies ELSE SampleReplies

GroqReplies == IF focus = "groq" THEN Replies ELSE SampleReplies

preview_vars == <<generate_preview, template_type, preview, result_keys,
                  ai_outcome, draw_outcome>>

handler_vars == <<gemini_api_key, groq_api_key, content_type, temp_path_bound,
                  temp_exists, temp_created, upload_read, color_analysis, response>>

\* test.py:502
SuggesterExtract ==
    /\ pc = "extract"
    /\ \E r \in GeminiReplies :
         LET outcome == extract_colors_with_gemini(r)
         IN  /\ reply' = r
             /\ adapter' = "gemini"
             /\ extract_called' = TRUE
             /\ IF outcome.exc = "none"
                THEN /\ image_colors' = outcome.val
                     /\ pc' = "suggest"
                     /\ UNCHANGED pending
                ELSE /\ pending' = Exc("Exception")
                     /\ pc' = "except"
                     /\ UNCHANGED image_colors
    /\ UNCHANGED <<focus, description_colors, organized_palette, all_colors,
                   suggest_called>>
    /\ UNCHANGED handler_vars
    /\ UNCHANGED preview_vars

\* test.py:506
SuggesterSuggest ==
    /\ pc = "suggest"
    /\ \E r \in GroqReplies :
         LET outcome == suggest_colors_with_chatgroq(r)
         IN  /\ reply' = r
             /\ adapter' = "groq"
             /\ suggest_called' = TRUE
             /\ IF outcome.exc = "none"
                THEN /\ description_colors' = outcome.val
                     /\ pc' = "organize"
                     /\ UNCHANGED pending
                ELSE /\ pending' = Exc("Exception")
                     /\ pc' = "except"
                     /\ UNCHANGED description_colors
    /\ UNCHANGED <<focus, image_colors, organized_palette, all_colors,
                   extract_called>>
    /\ UNCHANGED handler_vars
    /\ UNCHANGED preview_vars

\* test.py:510-524 (and 537 when no preview is asked for): organize, build
\* the result.  list(set(...)) has no defined order: all_colors is kept as
\* the set.
SuggesterOrganize ==
    /\ pc = "organize"
    /\ organized_palette' = organize_palette(image_colors, description_colors)
    /\ all_colors' = Range(image_colors \o description_colors)
    /\ result_keys' = {"image_based", "description_based", "organized_palette",
                       "all_colors"}
    /\ pc' = IF generate_preview THEN "preview" ELSE "returned"
    /\ UNCHANGED <<reply, adapter, focus, image_colors, description_colors,
                   extract_called, suggest_called, pending>>
    /\ UNCHANGED <<generate_preview, template_type, preview, ai_outcome,
                   draw_outcome>>
    /\ UNCHANGED handler_vars

\* test.py:524-537: ask for the preview, attach it if there is one, return
SuggesterPreview ==
    /\ pc = "preview"
    /\ \E o \in AIOutcomes, ok \in BOOLEAN :
         LET got == generate_ui_preview(organized_palette, template_type,
                                        gemini_api_key, o, ok)
         IN  /\ preview' = got
             /\ ai_outcome' = IF truthy(gemini_api_key) THEN o ELSE "skipped"
             /\ draw_outcome' =
                    IF got.source = "gemini" THEN "none"
                    ELSE IF ok THEN "ok" ELSE "raises"
             /\ result_keys' = IF got # NoPreview
                               THEN result_keys \cup {"preview"}
                               ELSE result_keys
    /\ pc' = "returned"
    /\ UNCHANGED <<reply, adapter, focus, image_colors, description_colors,
                   organized_palette, all_colors, extract_called, suggest_called,
                   pending, generate_preview, template_type>>
    /\ UNCHANGED handler_vars

-----------------------------------------------------------------------------
(* POST /api/suggest-colors, src/main.py:78-238 *)

allowed_types == {"image/jpeg", "image/png", "image/gif", "image/webp"}

ContentTypes == allowed_types \cup {"text/plain"}

NoResponse == [status |-> 0, kind |-> "none", fields |-> {}]

NoAnalysis == [color |-> None, suggested_color |-> None, is_perfect_match |-> FALSE]

NoColorAnalysis ==
    [primary |-> NoAnalysis, secondary |-> NoAnalysis, accent |-> NoAnalysis,
     background |-> NoAnalysis, text |-> NoAnalysis]

\* mutant: only an unset variable is refused, the empty string passes
check_keys_is_none(gemini, groq) ==
    IF gemini = KeyUnset THEN HTTPException(500, "GEMINI_API_KEY not configured")
    ELSE IF groq = KeyUnset THEN HTTPException(500, "GROQ_API_KEY not configured")
    ELSE NoExc

\* main.py:100-104
check_keys(gemini, groq) ==
    IF ~truthy(gemini) THEN HTTPException(500, "GEMINI_API_KEY not configured")
    ELSE IF ~truthy(groq) THEN HTTPException(500, "GROQ_API_KEY not configured")
    ELSE NoExc

\* mutant: every text/* and image/* upload passes
check_type_too_wide(ct) ==
    IF ct \notin allowed_types \cup {"text/plain"}
    THEN HTTPException(400, "Unsupported file type")
    ELSE NoExc

\* main.py:107-112
check_type(ct) ==
    IF ct \notin allowed_types THEN HTTPException(400, "Unsupported file type")
    ELSE NoExc

\* mutant: the positions of description_based are counted from one
analyse_one_based(color, description_based, idx) ==
    LET suggested == IF Len(description_based) > idx + 1
                     THEN description_based[idx + 2] ELSE None
    IN  [color            |-> color,
         suggested_color  |-> IF color # suggested THEN suggested ELSE None,
         is_perfect_match |-> color = suggested]

\* main.py:133-141 and its four repetitions: position idx (0-based) of
\* description_based against the role's colour
analyse(color, description_based, idx) ==
    LET suggested == IF Len(description_based) > idx
                     THEN description_based[idx + 1] ELSE None
    IN  [color            |-> color,
         suggested_color  |-> IF color # suggested THEN suggested ELSE None,
         is_perfect_match |-> color = suggested]

\* main.py:130-185
build_color_analysis(palette, description_based) ==
    [primary    |-> analyse(palette.primary, description_based, 0),
     secondary  |-> analyse(palette.secondary, description_based, 1),
     accent     |-> analyse(palette.accent, description_based, 2),
     background |-> analyse(palette.background, description_based, 3),
     text       |-> analyse(palette.text, description_based, 4)]

\* main.py:204-212
enhanced_result ==
    [status |-> 200, kind |-> "result",
     fields |-> result_keys \cup {"color_analysis", "ui_recommendations",
                                  "additional_notes"}]

\* mutant: the second except clause raises the exception again
except_clauses_reraise(p) == [pending |-> p, response |-> NoResponse]

\* main.py:214-231: what the except clauses make of the exception p, as
\* [pending, response]: HTTPException is raised again, any other Exception
\* becomes the structured error response
except_clauses(p) ==
    IF p.type = "HTTPException"
    THEN [pending |-> p, response |-> NoResponse]
    ELSE [pending  |-> [p EXCEPT !.caught = TRUE],
          response |-> [status |-> 500, kind |-> "error",
                        fields |-> {"error", "details", "request_id"}]]

\* mutant: no cleanup in the finally clause
finally_clause_no_cleanup(bound, exists) == exists

\* main.py:232-238: the file exists after the finally clause
finally_clause(bound, exists) == IF bound /\ exists THEN FALSE ELSE exists

\* what the framework sends for an exception that leaves the handler
framework_response(p) ==
    IF p.type = "HTTPException"
    THEN [status |-> p.status, kind |-> "detail", fields |-> {"detail"}]
    ELSE [status |-> 500, kind |-> "unhandled", fields |-> {}]

suggester_vars == <<reply, adapter, focus, image_colors, description_colors,
                    organized_palette, all_colors, extract_called, suggest_called>>

env_vars == <<gemini_api_key, groq_api_key, content_type>>

\* main.py:97-104
CheckKeys ==
    /\ pc = "start"
    /\ LET e == check_keys(gemini_api_key, groq_api_key)
       IN  IF e.type = "none"
           THEN pc' = "check_type" /\ UNCHANGED pending
           ELSE pc' = "except" /\ pending' = e
    /\ UNCHANGED <<temp_path_bound, temp_exists, temp_created, upload_read,
                   color_analysis, response>>
    /\ UNCHANGED <<suggester_vars, env_vars, preview_vars>>

\* main.py:107-112
CheckType ==
    /\ pc = "check_type"
    /\ LET e == check_type(content_type)
       IN  IF e.type = "none"
           THEN pc' = "create_temp" /\ UNCHANGED pending
           ELSE pc' = "except" /\ pending' = e
    /\ UNCHANGED <<temp_path_bound, temp_exists, temp_created, upload_read,
                   color_analysis, response>>
    /\ UNCHANGED <<suggester_vars, env_vars, preview_vars>>

\* main.py:115-116: the file is created and its name bound, or the creation
\* fails (OSError) and nothing is bound
CreateTemp ==
    /\ pc = "create_temp"
    /\ \E ok \in BOOLEAN :
         IF ok
         THEN /\ temp_exists' = TRUE
              /\ temp_created' = TRUE
              /\ temp_path_bound' = TRUE
              /\ pc' = "read_upload"
              /\ UNCHANGED pending
         ELSE /\ pending' = Exc("Exception")
              /\ pc' = "except"
              /\ UNCHANGED <<temp_exists, temp_created, temp_path_bound>>
    /\ UNCHANGED <<upload_read, color_analysis, response>>
    /\ UNCHANGED <<suggester_vars, env_vars, preview_vars>>

\* main.py:117-118: read the upload and write it to the file, or fail
ReadUpload ==
    /\ pc = "read_upload"
    /\ upload_read' = TRUE
    /\ \E ok \in BOOLEAN :
         IF ok
         THEN pc' = "extract" /\ UNCHANGED pending
         ELSE pc' = "except" /\ pending' = Exc("Exception")
    /\ UNCHANGED <<temp_path_bound, temp_exists, temp_created, color_analysis,
                   response>>
    /\ UNCHANGED <<suggester_vars, env_vars, preview_vars>>

\* main.py:123: an Exception that ai_color_suggester does not absorb
SuggesterCrash ==
    /\ pc \in {"extract", "suggest", "organize"}
    /\ pending' = Exc("Exception")
    /\ pc' = "except"
    /\ UNCHANGED <<temp_path_bound, temp_exists, temp_created, upload_read,
                   color_analysis, response>>
    /\ UNCHANGED <<suggester_vars, env_vars, preview_vars>>

\* main.py:126
Unlink ==
    /\ pc = "returned"
    /\ temp_exists' = FALSE
    /\ pc' = "analyse"
    /\ UNCHANGED <<temp_path_bound, temp_created, upload_read, color_analysis,
                   response, pending>>
    /\ UNCHANGED <<suggester_vars, env_vars, preview_vars>>

\* main.py:129-212: build the analysis and return the enhanced result, or
\* fail while building it
Analyse ==
    /\ pc = "analyse"
    /\ \E ok \in BOOLEAN :
         IF ok
         THEN /\ color_analysis' =
                    build_color_analysis(organized_palette, description_colors)
              /\ response' = enhanced_result
              /\ pc' = "finally"
              /\ UNCHANGED pending
         ELSE /\ pending' = Exc("Exception")
              /\ pc' = "except"
              /\ UNCHANGED <<color_analysis, response>>
    /\ UNCHANGED <<temp_path_bound, temp_exists, temp_created, upload_read>>
    /\ UNCHANGED <<suggester_vars, env_vars, preview_vars>>

\* main.py:214-231
Except ==
    /\ pc = "except"
    /\ pending' = except_clauses(pending).pending
    /\ response' = except_clauses(pending).response
    /\ pc' = "finally"
    /\ UNCHANGED <<temp_path_bound, temp_exists, temp_created, upload_read,
                   color_analysis>>
    /\ UNCHANGED <<suggester_vars, env_vars, preview_vars>>

\* main.py:232-238, then the response (or the exception) leaves the handler
Finally ==
    /\ pc = "finally"
    /\ temp_exists' = finally_clause(temp_path_bound, temp_exists)
    /\ response' = IF pending.type = "none" \/ pending.caught THEN response
                   ELSE framework_response(pending)
    /\ pc' = "done"
    /\ UNCHANGED <<temp_path_bound, temp_created, upload_read, color_analysis,
                   pending>>
    /\ UNCHANGED <<suggester_vars, env_vars, preview_vars>>

-----------------------------------------------------------------------------
(* Specifications *)

\* colours fed to organize_palette
OrgColors == {cNavy, cWhite, cBlack, cGrey, cRed}

InitIdle ==
    /\ reply = NoReply
    /\ adapter = "none"
    /\ organized_palette = NoPalette
    /\ all_colors = {}
    /\ temp_path_bound = FALSE
    /\ temp_exists = FALSE
    /\ temp_created = FALSE
    /\ upload_read = FALSE
    /\ extract_called = FALSE
    /\ suggest_called = FALSE
    /\ pending = NoExc
    /\ color_analysis = NoColorAnalysis
    /\ response = NoResponse
    /\ preview = NoPreview
    /\ result_keys = {}
    /\ ai_outcome = "none"
    /\ draw_outcome = "none"

\* the defaults of ai_color_suggester's last two parameters, test.py:485
InitNoPreview ==
    /\ generate_preview = FALSE
    /\ template_type = "website"

\* organize_palette applied to every pair of colour sequences
InitOrg ==
    /\ InitIdle
    /\ InitNoPreview
    /\ pc = "organize"
    /\ focus = "none"
    /\ image_colors \in SeqsUpTo(OrgColors, MaxImg)
    /\ description_colors \in SeqsUpTo(OrgColors, MaxDesc)
    /\ gemini_api_key = "key"
    /\ groq_api_key = "key"
    /\ content_type = "image/png"

NextOrg == SuggesterOrganize

\* colours around the two brightness thresholds: brightness exactly 200,
\* 201, exactly 80, 79, 128, and white in both spellings
cLuma200 == <<"#","c","8","c","8","c","8">>
cLuma201 == <<"#","c","9","c","9","c","9">>
cLuma80  == <<"#","5","0","5","0","5","0">>
cLuma79  == <<"#","4","f","4","f","4","f">>

EdgeColors == {cLuma200, cLuma201, cLuma80, cLuma79, cGrey, cWhite, cWhiteUpper}

\* organize_palette called with colours around the thresholds
InitEdge ==
    /\ InitIdle
    /\ InitNoPreview
    /\ pc = "organize"
    /\ focus = "none"
    /\ image_colors \in SeqsUpTo(EdgeColors, MaxEdge)
    /\ description_colors \in SeqsUpTo(EdgeColors, MaxEdge)
    /\ gemini_api_key = "key"
    /\ groq_api_key = "key"
    /\ content_type = "image/png"

NextEdge == SuggesterOrganize

SpecEdge == InitEdge /\ [][NextEdge]_vars

SpecOrg == InitOrg /\ [][NextOrg]_vars

\* ai_color_suggester with the replies of one adapter enumerated
InitSuggester ==
    /\ InitIdle
    /\ InitNoPreview
    /\ pc = "extract"
    /\ focus \in {"gemini", "groq"}
    /\ image_colors = <<>>
    /\ description_colors = <<>>
    /\ gemini_api_key = "key"
    /\ groq_api_key = "key"
    /\ content_type = "image/png"

NextSuggester == SuggesterExtract \/ SuggesterSuggest \/ SuggesterOrganize

SpecSuggester == InitSuggester /\ [][NextSuggester]_vars

\* ai_color_suggester called with or without a preview, for each template
InitPreview ==
    /\ InitIdle
    /\ pc = "extract"
    /\ focus = "none"
    /\ image_colors = <<>>
    /\ description_colors = <<>>
    /\ gemini_api_key \in {"key", ""}
    /\ groq_api_key = "key"
    /\ content_type = "image/png"
    /\ generate_preview \in BOOLEAN
    /\ template_type \in Templates

NextPreview ==
    \/ SuggesterExtract
    \/ SuggesterSuggest
    \/ SuggesterOrganize
    \/ SuggesterPreview

SpecPreview == InitPreview /\ [][NextPreview]_vars

\* one request to POST /api/suggest-colors
Init ==
    /\ InitIdle
    /\ InitNoPreview
    /\ pc = "start"
    /\ focus = "none"
    /\ image_colors = <<>>
    /\ description_colors = <<>>
    /\ gemini_api_key \in KeyValues
    /\ groq_api_key \in KeyValues
    /\ content_type \in ContentTypes

Next ==
    \/ CheckKeys
    \/ CheckType
    \/ CreateTemp
    \/ ReadUpload
    \/ SuggesterExtract
    \/ SuggesterSuggest
    \/ SuggesterOrganize
    \/ SuggesterCrash
    \/ Unlink
    \/ Analyse
    \/ Except
    \/ Finally

Spec == Init /\ [][Next]_vars

-----------------------------------------------------------------------------
(* Properties of organize_palette, under SpecOrg *)

all_inputs == image_colors \o description_colors

roles_of(p) == {p.primary, p.secondary, p.accent, p.background, p.text}

\* '#' followed by exactly six hex digits
IsHexColor(c) ==
    /\ Len(c) = 7
    /\ c[1] = "#"
    /\ \A i \in 2..7 : c[i] \in Range(HexLower) \cup Range(HexUpper)

\* C1: the additional list returned by organize_palette contains no element
\* equal to the returned primary, secondary, accent, background or text.
C1_AdditionalExcludesRoles ==
    pc = "returned" =>
        \A i \in 1..Len(organized_palette.additional) :
            organized_palette.additional[i] \notin roles_of(organized_palette)

\* C1 witness: an additional colour was kept while an input colour beyond
\* the first position was taken as the text role only and left out.
C1_Witness ==
    /\ pc = "returned"
    /\ Len(organized_palette.additional) > 0
    /\ \E i \in 2..Len(all_inputs) : all_inputs[i] = organized_palette.text
    /\ organized_palette.text # organized_palette.primary
    /\ organized_palette.text # organized_palette.secondary

\* C2: for valid hex inputs, either or both possibly empty, each of the five
\* roles is a non-empty hex colour that is an input colour or that role's
\* hard-coded default.
C2_RolesPopulated ==
    pc = "returned" =>
        /\ \A c \in roles_of(organized_palette) : c # None /\ IsHexColor(c)
        /\ organized_palette.primary \in Range(all_inputs) \cup {cBlue}
        /\ organized_palette.secondary \in Range(all_inputs) \cup {cGreen}
        /\ organized_palette.accent \in Range(all_inputs) \cup {cRed}
        /\ organized_palette.background \in Range(all_inputs) \cup {cWhite}
        /\ organized_palette.text \in Range(all_inputs) \cup {cCharcoal}

\* C2 witness: no image colour and a single mid-grey description colour:
\* primary comes from the description, the other four roles are defaults.
C2_Witness ==
    /\ pc = "returned"
    /\ image_colors = <<>>
    /\ description_colors = <<cGrey>>
    /\ organized_palette.primary = cGrey
    /\ organized_palette.secondary = cGreen
    /\ organized_palette.accent = cRed
    /\ organized_palette.background = cWhite
    /\ organized_palette.text = cCharcoal

\* C3: with both inputs empty the palette is exactly the five defaults and
\* additional is the empty sequence.
C3_EmptyInputsGiveDefaults ==
    (pc = "returned" /\ image_colors = <<>> /\ description_colors = <<>>) =>
        /\ organized_palette.primary = cBlue
        /\ organized_palette.secondary = cGreen
        /\ organized_palette.accent = cRed
        /\ organized_palette.background = cWhite
        /\ organized_palette.text = cCharcoal
        /\ organized_palette.additional = <<>>

\* C3 witness: organize_palette has returned for two empty inputs.
C3_Witness ==
    /\ pc = "returned"
    /\ image_colors = <<>>
    /\ description_colors = <<>>
    /\ organized_palette.primary = cBlue

C4_Case ==
    /\ pc = "returned"
    /\ image_colors = <<cNavy>>
    /\ description_colors = <<cWhite, cBlack>>

\* C4 as stated: for image_colors = ["#112233"] and description_colors =
\* ["#ffffff", "#000000"] the palette has primary #112233, secondary #000000,
\* accent #ffffff, background #ffffff and text #000000.
C4_Original ==
    C4_Case =>
        /\ organized_palette.primary = cNavy
        /\ organized_palette.secondary = cBlack
        /\ organized_palette.accent = cWhite
        /\ organized_palette.background = cWhite
        /\ organized_palette.text = cBlack

\* C4 amended: for image_colors = ["#112233"] and description_colors =
\* ["#ffffff", "#000000"] the palette has primary #112233, secondary #000000,
\* accent #ffffff, background #ffffff and text #112233: #112233 has
\* brightness 30.855 < 80 and comes first in the concatenation.
C4_Amended ==
    C4_Case =>
        /\ organized_palette.primary = cNavy
        /\ organized_palette.secondary = cBlack
        /\ organized_palette.accent = cWhite
        /\ organized_palette.background = cWhite
        /\ organized_palette.text = cNavy

\* C4 witness: the example has been organized, and its text is the image
\* colour.
C4_Witness == C4_Case /\ organized_palette.text = cNavy /\ is_dark(cNavy)

-----------------------------------------------------------------------------
(* Properties of the request handler, under Spec *)

C6_Original ==
    content_type \notin {"image/jpeg", "image/png", "image/gif", "image/webp"} =>
        /\ ~extract_called /\ ~suggest_called /\ ~temp_created
        /\ pc = "done" => response.status = 400

\* C6 amended: a request whose content type is not in the allow-list never
\* invokes an adapter nor creates a temporary file; it is answered with HTTP
\* 400 when both credentials are configured, and with the credential check's
\* HTTP 500 when one is unset or empty, the credentials being checked first.
C6_Amended ==
    content_type \notin {"image/jpeg", "image/png", "image/gif", "image/webp"} =>
        /\ ~extract_called /\ ~suggest_called /\ ~temp_created
        /\ pc = "done" =>
            /\ response.kind = "detail"
            /\ response.status =
                 IF gemini_api_key \in {KeyUnset, ""} \/ groq_api_key \in {KeyUnset, ""}
                 THEN 500 ELSE 400

\* C6 witness: a text/plain upload with both credentials set was answered 400.
C6_Witness ==
    /\ pc = "done"
    /\ content_type = "text/plain"
    /\ gemini_api_key = "key"
    /\ groq_api_key = "key"
    /\ response.status = 400

\* C7: when either credential is unset or empty the request is answered with
\* HTTP 500 and a plain detail body, and the upload is never read, no
\* temporary file is created and no adapter is invoked.
C7_MissingCredentialFailsFast ==
    (gemini_api_key \in {KeyUnset, ""} \/ groq_api_key \in {KeyUnset, ""}) =>
        /\ ~upload_read /\ ~temp_created /\ ~extract_called /\ ~suggest_called
        /\ pc = "done" =>
            response = [status |-> 500, kind |-> "detail", fields |-> {"detail"}]

\* C7 witness: the second credential alone is the empty string, the upload is
\* an allowed image, and the request was answered 500.
C7_Witness ==
    /\ pc = "done"
    /\ gemini_api_key = "key"
    /\ groq_api_key = ""
    /\ content_type = "image/png"
    /\ response.status = 500

\* C10: an exception other than HTTPException raised while handling the
\* request is caught by the handler and answered with HTTP 500 and a body
\* with exactly the fields error, details and request_id.
C10_UnexpectedErrorStructured ==
    (pc = "done" /\ pending.type = "Exception") =>
        /\ pending.caught
        /\ response = [status |-> 500, kind |-> "error",
                       fields |-> {"error", "details", "request_id"}]

\* C10 witness: reading the upload failed and the request was answered with
\* the structured error.
C10_Witness ==
    /\ pc = "done"
    /\ pending.type = "Exception"
    /\ upload_read
    /\ ~extract_called
    /\ response.kind = "error"

-----------------------------------------------------------------------------
(* Properties of the adapters, under SpecSuggester *)

\* the reply text holds no decodable JSON array and no '#' + six hex digits
Malformed(text) ==
    /\ \/ re_search_array(text) = <<>>
       \/ ~json_decodable(re_search_array(text))
    /\ \A i \in 1..Len(text) :
         \A j \in 1..Len(text[i].s) :
            ~(/\ j + 6 <= Len(text[i].s)
              /\ text[i].s[j] = "#"
              /\ \A d \in 1..6 : IsHexDigit(text[i].s[j + d]))

\* the adapter's return value, in the states that follow its return
returned_by_adapter ==
    IF adapter = "gemini" THEN image_colors ELSE description_colors

adapter_returned ==
    \/ adapter = "gemini" /\ pc = "suggest"
    \/ adapter = "groq" /\ pc \in {"organize", "returned"}

\* C8: neither adapter raises; on a provider failure and on a reply text with
\* no decodable JSON array and no hex substring it returns the empty
\* sequence; and ai_color_suggester returns a palette with every role set.
C8_AdaptersNeverRaise ==
    /\ pc # "except"
    /\ pending.type = "none"
    /\ (adapter_returned /\ (reply.raises \/ Malformed(reply.text))) =>
            returned_by_adapter = <<>>
    /\ pc = "returned" =>
            \A c \in roles_of(organized_palette) : c # None

\* C8 witness: the description adapter got a non-empty malformed text, both
\* sequences are empty and ai_color_suggester returned the default palette.
C8_Witness ==
    /\ pc = "returned"
    /\ adapter = "groq"
    /\ ~reply.raises
    /\ Len(reply.text) > 1
    /\ Malformed(reply.text)
    /\ image_colors = <<>>
    /\ description_colors = <<>>
    /\ organized_palette.primary = cBlue
    /\ organized_palette.text = cCharcoal

\* the tokens of the claim: the elements of the decoded JSON array, or else
\* the regex matches
claimed_tokens(text) == extract_tokens(text)

\* the tokens that, once a missing '#' is prefixed, are '#' followed by
\* exactly six hex digits, in their order; a token that is no string is
\* discarded like any other invalid token
RECURSIVE claimed_result(_)
claimed_result(tokens) ==
    IF tokens = <<>> THEN <<>>
    ELSE LET t == Head(tokens)
             c == IF Len(t.s) > 0 /\ t.s[1] = "#" THEN t.s ELSE <<"#">> \o t.s
         IN  (IF t.k = "str" /\ IsHexColor(c) THEN <<c>> ELSE <<>>)
                \o claimed_result(Tail(tokens))

\* C9: for every reply from which tokens are extracted, the adapter returns,
\* in order, exactly the tokens that after prefixing a missing '#' are '#'
\* followed by exactly six hex digits; the others are discarded one by one.
C9_InvalidTokensDiscardedIndividually ==
    (adapter_returned /\ ~reply.raises) =>
        returned_by_adapter = claimed_result(claimed_tokens(reply.text))

-----------------------------------------------------------------------------
(* Properties of the analysis in a successful response, under Spec *)

RoleIndex ==
    [primary |-> 0, secondary |-> 1, accent |-> 2, background |-> 3, text |-> 4]

\* the entry of description_based at 0-based position i, None if there is none
positional(i) ==
    IF i < Len(description_colors) THEN description_colors[i + 1] ELSE None

succeeded == pc = "done" /\ response.kind = "result"

\* C11 as stated: for each role r with index i, color is the role's colour,
\* is_perfect_match holds exactly when description_based[i] exists and equals
\* it, and suggested_color is description_based[i], null if there is no
\* position i.
C11_Original ==
    succeeded =>
        \A r \in DOMAIN RoleIndex :
            /\ color_analysis[r].color = organized_palette[r]
            /\ color_analysis[r].is_perfect_match =
                 (/\ RoleIndex[r] < Len(description_colors)
                  /\ positional(RoleIndex[r]) = organized_palette[r])
            /\ color_analysis[r].suggested_color = positional(RoleIndex[r])

\* C11 amended: for each role r with index i, color is the role's colour,
\* is_perfect_match holds exactly when description_based[i] exists and equals
\* it, and suggested_color is description_based[i] when that entry exists and
\* differs from the role's colour, and null both when there is no position i
\* and when the entry equals the role's colour.
C11_Amended ==
    succeeded =>
        \A r \in DOMAIN RoleIndex :
            /\ color_analysis[r].color = organized_palette[r]
            /\ color_analysis[r].is_perfect_match =
                 (/\ RoleIndex[r] < Len(description_colors)
                  /\ positional(RoleIndex[r]) = organized_palette[r])
            /\ color_analysis[r].suggested_color =
                 IF positional(RoleIndex[r]) = organized_palette[r]
                 THEN None ELSE positional(RoleIndex[r])

\* C11 witness: a successful response over five description colours where
\* the text role matches position 4 (suggested_color null) and the accent
\* role differs from position 2 (suggested_color set).
C11_Witness ==
    /\ succeeded
    /\ Len(description_colors) = 5
    /\ color_analysis.text.is_perfect_match
    /\ color_analysis.text.suggested_color = None
    /\ ~color_analysis.accent.is_perfect_match
    /\ color_analysis.accent.suggested_color = description_colors[3]


-----------------------------------------------------------------------------
(* Properties of the preview, under SpecPreview                            *)

ai_path_failed == ai_outcome \in {"raises", "no_image", "url_not_200", "url_raises"}

returned_with_preview_asked == pc = "returned" /\ generate_preview

\* C12: when a preview is requested and the AI-generated path fails (the
\* provider raised, the response held no image, or the image download did
\* not answer 200), the preview is the locally drawn image instead of an
\* exception or an absent preview; the result has no "preview" key only if
\* the local drawing failed as well.
C12_LocalDrawingIsTheFallback ==
    returned_with_preview_asked =>
        /\ pending.type = "none"
        /\ (ai_path_failed /\ draw_outcome = "ok") =>
               /\ "preview" \in result_keys
               /\ preview = draw_preview(organized_palette, template_type)
               /\ preview.mime_type = "image/png"
        /\ ("preview" \notin result_keys) <=> (draw_outcome = "raises")

C12_Witness ==
    /\ returned_with_preview_asked
    /\ ai_outcome = "url_not_200"
    /\ draw_outcome = "ok"
    /\ preview.source = "local"
    /\ "preview" \in result_keys

RecognisedTemplates == {"website", "mobile", "dashboard"}

\* C13: a locally drawn preview for a template_type that is none of website,
\* mobile and dashboard is the drawing made for website: same canvas, same
\* shapes, same palette legend.
C13_UnrecognisedTemplateDrawnAsWebsite ==
    (/\ pc = "returned"
     /\ preview.source = "local"
     /\ template_type \notin RecognisedTemplates)
        => preview = draw_preview(organized_palette, "website")

-----------------------------------------------------------------------------
(* Properties of the role assignment, under SpecOrg                        *)

organized == pc = "returned"

\* C14: primary is image_colors[0] if it exists, else description_colors[0]
\* if it exists, else #3498db; secondary is image_colors[1] if it exists,
\* else description_colors[1] if it exists, else #2ecc71: the image colour
\* at the role's index takes precedence over the description colour there.
C14_ImageColourTakesPrecedence ==
    organized =>
        /\ organized_palette.primary =
              (IF Len(image_colors) >= 1 THEN image_colors[1]
               ELSE IF Len(description_colors) >= 1 THEN description_colors[1]
               ELSE cBlue)
        /\ organized_palette.secondary =
              (IF Len(image_colors) >= 2 THEN image_colors[2]
               ELSE IF Len(description_colors) >= 2 THEN description_colors[2]
               ELSE cGreen)

C14_Witness ==
    /\ organized
    /\ Len(image_colors) = 1
    /\ Len(description_colors) = 2
    /\ description_colors[1] # image_colors[1]
    /\ organized_palette.primary = image_colors[1]
    /\ organized_palette.secondary = description_colors[2]

candidate_accepted ==
    /\ Len(description_colors) > 0
    /\ description_colors[1] # organized_palette.primary
    /\ description_colors[1] # organized_palette.secondary

\* C15: accent is description_colors[0] when description_colors is not empty
\* and its first colour differs from both the assigned primary and the assigned
\* secondary; in every other case accent is image_colors[2] if it exists,
\* else #e74c3c.
C15_AccentRule ==
    organized =>
        organized_palette.accent =
            (IF candidate_accepted THEN description_colors[1]
             ELSE IF Len(image_colors) >= 3 THEN image_colors[3]
             ELSE cRed)

\* the candidate equals the secondary (not the primary) and is rejected
C15_Witness ==
    /\ organized
    /\ Len(description_colors) > 0
    /\ description_colors[1] = organized_palette.secondary
    /\ description_colors[1] # organized_palette.primary
    /\ Len(image_colors) = 3
    /\ organized_palette.accent = image_colors[3]
    /\ organized_palette.accent # description_colors[1]

not_a_role(c) == c \notin roles_of(organized_palette)

non_role_inputs == SelectSeq(all_inputs, not_a_role)

C20_NoImageColoursGivesDefaultAccent ==
    (organized /\ image_colors = <<>>) => organized_palette.accent = cRed

C20_Witness ==
    /\ organized
    /\ image_colors = <<>>
    /\ Len(description_colors) = 2
    /\ description_colors[1] # cRed
    /\ description_colors[2] # cRed
    /\ organized_palette.primary = description_colors[1]
    /\ organized_palette.accent = cRed

-----------------------------------------------------------------------------
(* Properties of the brightness classes and ui_components, under SpecEdge  *)

channel(c, k) == int16(Slice(c, 2 * k - 1, 2 * k + 1))

\* 1000 * luma(c), with luma(c) = (R*299 + G*587 + B*114)/1000
luma1000(c) == channel(c, 1) * 299 + channel(c, 2) * 587 + channel(c, 3) * 114

lighter_than_200 == {k \in 1..Len(all_inputs) : luma1000(all_inputs[k]) > 200000}

darker_than_80 == {k \in 1..Len(all_inputs) : luma1000(all_inputs[k]) < 80000}

least(S) == CHOOSE k \in S : \A j \in S : k <= j

\* C16: background is the first element of image_colors ++ description_colors
\* with luma strictly greater than 200, else #ffffff; text is the first
\* element with luma strictly less than 80, else #333333; a colour with luma
\* exactly 200 or exactly 80, or in between such as #808080, is neither.
C16_StrictBrightnessThresholds ==
    organized =>
        /\ organized_palette.background =
              (IF lighter_than_200 = {} THEN cWhite
               ELSE all_inputs[least(lighter_than_200)])
        /\ organized_palette.text =
              (IF darker_than_80 = {} THEN cCharcoal
               ELSE all_inputs[least(darker_than_80)])
        /\ \A k \in 1..Len(all_inputs) :
              luma1000(all_inputs[k]) \in 80000..200000 =>
                  /\ all_inputs[k] # organized_palette.background
                  /\ all_inputs[k] # organized_palette.text

\* colours with luma exactly 200 and exactly 80 come first and are passed
\* over for a later colour or the default
C16_Witness ==
    /\ organized
    /\ image_colors = <<cLuma200, cLuma80>>
    /\ description_colors = <<cGrey, cLuma79>>
    /\ luma1000(cLuma200) = 200000
    /\ luma1000(cLuma80) = 80000
    /\ organized_palette.background = cWhite
    /\ organized_palette.text = cLuma79

\* C18: ui_components has exactly the keys button, button_hover, header,
\* card_background, border; button and header are primary, button_hover is
\* secondary, border is #e0e0e0, card_background is #ffffff when background
\* is not the string #ffffff and #f8f9fa when it is, so card_background is
\* never the same string as background.
C18_UiComponents ==
    organized =>
        LET ui == organized_palette.ui_components
        IN  /\ DOMAIN ui = {"button", "button_hover", "header", "card_background",
                            "border"}
            /\ ui.button = organized_palette.primary
            /\ ui.header = organized_palette.primary
            /\ ui.button_hover = organized_palette.secondary
            /\ ui.border = cBorder
            /\ organized_palette.background # cWhite => ui.card_background = cWhite
            /\ organized_palette.background = cWhite => ui.card_background = cCard
            /\ ui.card_background # organized_palette.background

\* the background is white spelled in upper case: another string than #ffffff
C18_Witness ==
    /\ organized
    /\ organized_palette.background = cWhiteUpper
    /\ organized_palette.ui_components.card_background = cWhite

\* C19: the background returned has luma strictly greater than 200 and the
\* text returned has luma strictly less than 80, defaults included, so
\* background and text are never the same colour.
C19_BackgroundLightTextDark ==
    organized =>
        /\ luma1000(organized_palette.background) > 200000
        /\ luma1000(organized_palette.text) < 80000
        /\ organized_palette.background # organized_palette.text

\* both roles are taken from the inputs, next to colours at the thresholds
C19_Witness ==
    /\ organized
    /\ cLuma200 \in Range(all_inputs)
    /\ cLuma80 \in Range(all_inputs)
    /\ organized_palette.background = cLuma201
    /\ organized_palette.text = cLuma79
====
